---- MODULE Spec2Model ----
(***************************************************************************)
(* The two HTTP services of the repository over their MongoDB collections. *)
(*   src/main.go           the user registry   (database "userdb")        *)
(*   src/unnamed/part_000  the hospital service (database "hospitaldb")    *)
(* A behaviour is a run of one of the two binaries.  Every store call of   *)
(* a handler is one atomic step (the store's single-document atomicity),   *)
(* so concurrent requests interleave between their store calls.            *)
(***************************************************************************)
EXTENDS Integers, Sequences, FiniteSets, Bags, TLC

\* ------------------------------------------------------------------ bounds
MaxReq == 2          \* requests the server serves at the same time
MaxOid == 2          \* ObjectIDs the driver generates in a run: 1..MaxOid
ClientOid == 1       \* the ObjectID a client may put in a payload's "id"
Now == 2             \* the instant time.Now() returns

\* --------------------------------------------------------------- constants
StatusOK == 200
StatusCreated == 201
StatusBadRequest == 400
StatusMethodNotAllowed == 405
StatusInternalServerError == 500

NilObjectID == 0     \* the zero primitive.ObjectID (and an absent "id")
BadHex == -1         \* an "id" string that is no ObjectID hex
TicksPerMs == 2      \* instants per millisecond: BSON datetimes keep milliseconds

MethodNotAllowedMsg == "Method not allowed"
ErrDecode == "invalid character"                 \* json decoder's err.Error()
ErrDuplicateKey == "E11000 duplicate key error"  \* the store's write error
ErrUnavailable == "context deadline exceeded"    \* timeout / store unreachable
ErrNoDocuments == "mongo: no documents in result"
PatientNotFound == "patient not found"
DoctorNotFound == "doctor not found"
Scheduled == "Scheduled"

Emails == {"a@x.com", "b@x.com"}
Statuses == {"", "Completed"}
Methods == {"GET", "POST"}
PayloadIds == {NilObjectID, ClientOid}
RefIds == 1..MaxOid

VARIABLES
    program,        \* which binary runs: "userdb" or "hospitaldb"
    users,          \* userdb.users
    patients,       \* hospitaldb.patients
    doctors,        \* hospitaldb.doctors
    appointments,   \* hospitaldb.appointments
    departments,    \* hospitaldb.departments
    patientIndex,   \* the unique index on patients.email exists
    doctorIndex,    \* the unique index on doctors.email exists
    nextOid,        \* the driver's ObjectID generator
    reqs,           \* the requests being served (a bag)
    resp,           \* the response the last step sent, if it sent one
    created         \* the successful creations so far: handler, payload, identifier

vars == <<program, users, patients, doctors, appointments, departments,
          patientIndex, doctorIndex, nextOid, reqs, resp, created>>

colls == <<users, patients, doctors, appointments, departments>>


\* ------------------------------------------------------------ request bodies
\* json = FALSE: the body is not well-formed JSON of the entity's shape.
MalformedUser == [json |-> FALSE, id |-> 0, name |-> "", email |-> ""]
BadIdUser == [json |-> TRUE, id |-> BadHex, name |-> "A", email |-> "a@x.com"]
UserBodies ==
    {MalformedUser, BadIdUser}
    \cup [json : {TRUE}, id : PayloadIds, name : {"A"}, email : Emails]

MalformedPatient ==
    [json |-> FALSE, id |-> 0, name |-> "", email |-> "", age |-> 0, gender |-> "",
     bloodGroup |-> "", contactNo |-> "", createdAt |-> 0]
PatientBodies ==
    {MalformedPatient}
    \cup [json : {TRUE}, id : PayloadIds, name : {"A"}, email : Emails, age : {30},
          gender : {"F"}, bloodGroup : {"O+"}, contactNo : {"123"},
          createdAt : {0}]

MalformedDoctor ==
    [json |-> FALSE, id |-> 0, name |-> "", email |-> "", specialization |-> "",
     department |-> "", contactNo |-> "", createdAt |-> 0]
DoctorBodies ==
    {MalformedDoctor}
    \cup [json : {TRUE}, id : {NilObjectID}, name : {"D"}, email : {"d@x.com"},
          specialization : {"cardio"}, department : {"c1"}, contactNo : {"456"},
          createdAt : {0}]

MalformedDepartment ==
    [json |-> FALSE, id |-> 0, name |-> "", description |-> "", createdAt |-> 0]
DepartmentBodies ==
    {MalformedDepartment}
    \cup [json : {TRUE}, id : {NilObjectID}, name : {"c1"}, description : {"heart"},
          createdAt : {0}]

MalformedAppointment ==
    [json |-> FALSE, id |-> 0, patientId |-> 0, doctorId |-> 0, dateTime |-> 0,
     status |-> "", description |-> "", createdAt |-> 0]
AppointmentBodies ==
    {MalformedAppointment}
    \cup [json : {TRUE}, id : {NilObjectID}, patientId : RefIds, doctorId : RefIds,
          dateTime : {1}, status : Statuses, description : {"checkup"},
          createdAt : {0}]

NoBody == [json |-> FALSE]

\* --------------------------------------------------------------- conversions
\* json.Decoder.Decode into the handler's struct: absent fields keep the zero
\* value; an "id" that is no ObjectID hex string is a decode error.
DecodeOk(h, b) ==
    /\ b.json
    /\ b.id # BadHex

DecodeVal(h, b) ==
    CASE h = "createUser" ->
           [ID |-> b.id, Name |-> b.name, Email |-> b.email]
      [] h = "createPatient" ->
           [ID |-> b.id, Name |-> b.name, Email |-> b.email, Age |-> b.age,
            Gender |-> b.gender, BloodGroup |-> b.bloodGroup,
            ContactNo |-> b.contactNo, CreatedAt |-> b.createdAt]
      [] h = "createDoctor" ->
           [ID |-> b.id, Name |-> b.name, Email |-> b.email,
            Specialization |-> b.specialization, Department |-> b.department,
            ContactNo |-> b.contactNo, CreatedAt |-> b.createdAt]
      [] h = "createDepartment" ->
           [ID |-> b.id, Name |-> b.name, Description |-> b.description,
            CreatedAt |-> b.createdAt]
      [] h = "createAppointment" ->
           [ID |-> b.id, PatientID |-> b.patientId, DoctorID |-> b.doctorId,
            DateTime |-> b.dateTime, Status |-> b.status,
            Description |-> b.description, CreatedAt |-> b.createdAt]

\* json.Encoder.Encode of a struct: the keys of its json tags.
Encode(h, e) ==
    CASE h \in {"createUser", "getUsers"} ->
           [id |-> e.ID, name |-> e.Name, email |-> e.Email]
      [] h \in {"createPatient", "getPatients"} ->
           [id |-> e.ID, name |-> e.Name, email |-> e.Email, age |-> e.Age,
            gender |-> e.Gender, bloodGroup |-> e.BloodGroup,
            contactNo |-> e.ContactNo, createdAt |-> e.CreatedAt]
      [] h = "createDoctor" ->
           [id |-> e.ID, name |-> e.Name, email |-> e.Email,
            specialization |-> e.Specialization, department |-> e.Department,
            contactNo |-> e.ContactNo, createdAt |-> e.CreatedAt]
      [] h = "createDepartment" ->
           [id |-> e.ID, name |-> e.Name, description |-> e.Description,
            createdAt |-> e.CreatedAt]
      [] h = "createAppointment" ->
           [id |-> e.ID, patientId |-> e.PatientID, doctorId |-> e.DoctorID,
            dateTime |-> e.DateTime, status |-> e.Status,
            description |-> e.Description, createdAt |-> e.CreatedAt]

\* A BSON datetime holds milliseconds: a time.Time loses what is below.
TruncMs(t) == t - (t % TicksPerMs)

\* bson.Marshal of a struct: the keys of its bson tags.  "_id,omitempty" leaves
\* a zero ID out (here: _id = NilObjectID), a non-zero ID is written as it is.
ToBSON(h, e) ==
    CASE h = "createUser" ->
           [_id |-> e.ID, name |-> e.Name, email |-> e.Email]
      [] h = "createPatient" ->
           [_id |-> e.ID, name |-> e.Name, email |-> e.Email, age |-> e.Age,
            gender |-> e.Gender, bloodGroup |-> e.BloodGroup,
            contactNo |-> e.ContactNo, createdAt |-> TruncMs(e.CreatedAt)]
      [] h = "createDoctor" ->
           [_id |-> e.ID, name |-> e.Name, email |-> e.Email,
            specialization |-> e.Specialization, department |-> e.Department,
            contactNo |-> e.ContactNo, createdAt |-> TruncMs(e.CreatedAt)]
      [] h = "createDepartment" ->
           [_id |-> e.ID, name |-> e.Name, description |-> e.Description,
            createdAt |-> TruncMs(e.CreatedAt)]
      [] h = "createAppointment" ->
           [_id |-> e.ID, patientId |-> e.PatientID, doctorId |-> e.DoctorID,
            dateTime |-> TruncMs(e.DateTime), status |-> e.Status,
            description |-> e.Description, createdAt |-> TruncMs(e.CreatedAt)]

\* The decoding with the struct's bson tags for name and email exchanged.
FromBSON_TagsExchanged(h, d) ==
    CASE h = "getUsers" ->
           [ID |-> d._id, Name |-> d.email, Email |-> d.name]
      [] h = "getPatients" ->
           [ID |-> d._id, Name |-> d.email, Email |-> d.name, Age |-> d.age,
            Gender |-> d.gender, BloodGroup |-> d.bloodGroup,
            ContactNo |-> d.contactNo, CreatedAt |-> d.createdAt]

\* cursor.All's decoding of one stored document into the list handler's struct.
FromBSON(h, d) ==
    CASE h = "getUsers" ->
           [ID |-> d._id, Name |-> d.name, Email |-> d.email]
      [] h = "getPatients" ->
           [ID |-> d._id, Name |-> d.name, Email |-> d.email, Age |-> d.age,
            Gender |-> d.gender, BloodGroup |-> d.bloodGroup,
            ContactNo |-> d.contactNo, CreatedAt |-> d.createdAt]

\* ------------------------------------------------------------------ the store
Ids(coll) == {coll[k]._id : k \in 1..Len(coll)}

EmailTaken(coll, email) == \E k \in 1..Len(coll) : coll[k].email = email

\* Collection.InsertOne.  The driver gives a document without _id a fresh
\* ObjectID before it sends it; the store rejects a duplicate _id always and a
\* duplicate email when the collection has the unique index.  up: the store
\* answers within the request's context.
InsertOne(coll, doc, unique, up, oid) ==
    LET id == IF doc._id = NilObjectID THEN oid ELSE doc._id
        next == IF doc._id = NilObjectID THEN oid + 1 ELSE oid
    IN  IF ~up
        THEN [err |-> ErrUnavailable, id |-> NilObjectID, docs |-> coll, oid |-> next]
        ELSE IF id \in Ids(coll) \/ (unique /\ EmailTaken(coll, doc.email))
        THEN [err |-> ErrDuplicateKey, id |-> NilObjectID, docs |-> coll, oid |-> next]
        ELSE [err |-> "", id |-> id, docs |-> Append(coll, [doc EXCEPT !._id = id]),
              oid |-> next]

\* Collection.FindOne(_id = id).Decode: its error ("" for none).
FindOne(coll, id, up) ==
    IF ~up THEN ErrUnavailable
    ELSE IF id \in Ids(coll) THEN ""
    ELSE ErrNoDocuments

\* Collection.Find(bson.M{}) and cursor.All into "var xs []T": the slice is nil
\* until a document is appended to it.
FindAll(h, coll, up) ==
    IF ~up
    THEN [err |-> ErrUnavailable, isNil |-> TRUE, items |-> <<>>]
    ELSE [err |-> "", isNil |-> (Len(coll) = 0),
          items |-> [k \in 1..Len(coll) |-> FromBSON(h, coll[k])]]

\* json.Encoder.Encode of a slice: a nil slice is "null", any other an array.
EncodeList(h, slice) ==
    [null |-> slice.isNil,
     items |-> [k \in 1..Len(slice.items) |-> Encode(h, slice.items[k])]]

\* ------------------------------------------------------------------- requests
NoVal == <<>>
NoResp == [h |-> "", method |-> "", body |-> NoBody, status |-> 0, text |-> "",
           val |-> NoVal]
Idle == [h |-> "", method |-> "", body |-> NoBody, pc |-> "idle", ent |-> NoVal]

CreateHandlers ==
    {"createUser", "createPatient", "createDoctor", "createAppointment",
     "createDepartment"}
ListHandlers == {"getUsers", "getPatients"}

\* http.Error(w, text, status) and return: the request is over.
HttpError(r, status, text) ==
    [req |-> Idle,
     resp |-> [h |-> r.h, method |-> r.method, body |-> r.body, status |-> status,
               text |-> text, val |-> NoVal]]

\* The handler goes on to its next store call.
Continue(r, pc) == [req |-> [r EXCEPT !.pc = pc], resp |-> NoResp]

\* The server-assigned fields with the client's status left in place.
ServerFields_ClientStatus(h, e, now) ==
    IF h = "createUser" THEN e ELSE [e EXCEPT !.CreatedAt = now]

\* The fields a creation handler sets after decoding.
ServerFields(h, e, now) ==
    CASE h = "createUser" -> e
      [] h = "createAppointment" -> [e EXCEPT !.CreatedAt = now, !.Status = Scheduled]
      [] OTHER -> [e EXCEPT !.CreatedAt = now]

\* The creation handler with the body decoded before the method is looked at.
ReceiveCreate_DecodeFirst(h, method, body, now) ==
    LET r == [Idle EXCEPT !.h = h, !.method = method, !.body = body]
    IN  IF ~DecodeOk(h, body)
        THEN HttpError(r, StatusBadRequest, ErrDecode)
        ELSE IF method # "POST"
        THEN HttpError(r, StatusMethodNotAllowed, MethodNotAllowedMsg)
        ELSE Continue([r EXCEPT !.ent = ServerFields(h, DecodeVal(h, body), now)],
                      IF h = "createAppointment" THEN "findPatient" ELSE "insert")

\* A creation handler up to its first store call: the method check, the decode,
\* the server-assigned fields.
ReceiveCreate(h, method, body, now) ==
    LET r == [Idle EXCEPT !.h = h, !.method = method, !.body = body]
    IN  IF method # "POST"
        THEN HttpError(r, StatusMethodNotAllowed, MethodNotAllowedMsg)
        ELSE IF ~DecodeOk(h, body)
        THEN HttpError(r, StatusBadRequest, ErrDecode)
        ELSE Continue([r EXCEPT !.ent = ServerFields(h, DecodeVal(h, body), now)],
                      IF h = "createAppointment" THEN "findPatient" ELSE "insert")

\* The creation handler with InsertOne's error dropped.
AfterInsert_ErrDropped(r, res) ==
    [req |-> Idle,
     resp |-> [h |-> r.h, method |-> r.method, body |-> r.body,
               status |-> StatusCreated, text |-> "",
               val |-> Encode(r.h, [r.ent EXCEPT !.ID = res.id])]]

\* A creation handler after InsertOne returned res.
AfterInsert(r, res) ==
    IF res.err # ""
    THEN HttpError(r, StatusInternalServerError, res.err)
    ELSE [req |-> Idle,
          resp |-> [h |-> r.h, method |-> r.method, body |-> r.body,
                    status |-> StatusCreated, text |-> "",
                    val |-> Encode(r.h, [r.ent EXCEPT !.ID = res.id])]]

\* validateAppointment with the patient lookup's error dropped.
AfterFindPatient_ErrDropped(r, err) == Continue(r, "findDoctor")

\* validateAppointment after the patient lookup returned err, and
\* createAppointment's answer to a validation error.
AfterFindPatient(r, err) ==
    IF err # ""
    THEN HttpError(r, StatusBadRequest, PatientNotFound)
    ELSE Continue(r, "findDoctor")

\* validateAppointment with the doctor lookup's error dropped.
AfterFindDoctor_ErrDropped(r, err) == Continue(r, "insert")

\* validateAppointment after the doctor lookup returned err.
AfterFindDoctor(r, err) ==
    IF err # ""
    THEN HttpError(r, StatusBadRequest, DoctorNotFound)
    ELSE Continue(r, "insert")

\* A list handler up to its store call.
ReceiveList(h, method) ==
    LET r == [Idle EXCEPT !.h = h, !.method = method]
    IN  IF method # "GET"
        THEN HttpError(r, StatusMethodNotAllowed, MethodNotAllowedMsg)
        ELSE Continue(r, "find")

\* A list handler after Find and cursor.All returned res.
AfterFind(r, res) ==
    IF res.err # ""
    THEN HttpError(r, StatusInternalServerError, res.err)
    ELSE [req |-> Idle,
          resp |-> [h |-> r.h, method |-> r.method, body |-> r.body,
                    status |-> StatusOK, text |-> "", val |-> EncodeList(r.h, res)]]

\* Every creation request being served may still draw an ObjectID.
Creating == {r \in BagToSet(reqs) : r.h \in CreateHandlers}
NumCreating == BagCardinality([r \in Creating |-> reqs[r]])
OidsLeft == nextOid + NumCreating <= MaxOid

\* The server takes a request when it serves fewer than MaxReq.
Free == BagCardinality(reqs) < MaxReq

\* The requests being served after request r made a step to out.req.
Served(r, out) ==
    IF out.req.pc = "idle"
    THEN reqs (-) SetToBag({r})
    ELSE (reqs (-) SetToBag({r})) (+) SetToBag({out.req})

\* What the client of a successful creation holds: its payload and the identifier.
Created(out) ==
    IF out.resp.status = StatusCreated
    THEN created \cup {[h |-> out.resp.h, body |-> out.resp.body, id |-> out.resp.val.id]}
    ELSE created

\* ----------------------------------------------------------------------- Init
\* main.go's init() ends the process when the users index cannot be created;
\* createIndexes of the hospital service logs the error and serves without it.
Init ==
    /\ program \in {"userdb", "hospitaldb"}
    /\ users = <<>>
    /\ patients = <<>>
    /\ doctors = <<>>
    /\ appointments = <<>>
    /\ departments = <<>>
    /\ patientIndex \in (IF program = "hospitaldb" THEN BOOLEAN ELSE {TRUE})
    /\ doctorIndex \in (IF program = "hospitaldb" THEN BOOLEAN ELSE {TRUE})
    /\ nextOid = 1
    /\ reqs = EmptyBag
    /\ resp = NoResp
    /\ created = {}

\* -------------------------------------------------------------------- actions
\* A response is on its way out: the handler that wrote it returns before the
\* server takes its next step (resp is written only, never read).
Quiet == resp.h = ""

\* A handler's step that touches no collection.
Step(r, out) ==
    /\ Quiet
    /\ reqs' = Served(r, out)
    /\ resp' = out.resp
    /\ UNCHANGED <<program, colls, patientIndex, doctorIndex, nextOid, created>>

\* POST /users, up to the insert
createUser ==
    /\ program = "userdb"
    /\ Free
    /\ OidsLeft
    /\ \E method \in Methods, body \in UserBodies :
         Step(Idle, ReceiveCreate("createUser", method, body, Now))

\* createUser: collection.InsertOne and the response
createUserInsert ==
    \E r \in BagToSet(reqs) :
    /\ Quiet
    /\ r.h = "createUser"
    /\ r.pc = "insert"
    /\ \E up \in BOOLEAN :
         LET res == InsertOne(users, ToBSON(r.h, r.ent), TRUE, up, nextOid)
             out == AfterInsert(r, res)
         IN  /\ users' = res.docs
             /\ nextOid' = res.oid
             /\ reqs' = Served(r, out)
             /\ resp' = out.resp
             /\ created' = Created(out)
    /\ UNCHANGED <<program, patients, doctors, appointments, departments,
                   patientIndex, doctorIndex>>

\* GET /users/list, up to the query
getUsers ==
    /\ program = "userdb"
    /\ Free
    /\ \E method \in Methods : Step(Idle, ReceiveList("getUsers", method))

\* getUsers: collection.Find, cursor.All and the response
getUsersFind ==
    \E r \in BagToSet(reqs) :
    /\ r.h = "getUsers"
    /\ r.pc = "find"
    /\ \E up \in BOOLEAN : Step(r, AfterFind(r, FindAll("getUsers", users, up)))

\* POST /patients, up to the insert
createPatient ==
    /\ program = "hospitaldb"
    /\ Free
    /\ OidsLeft
    /\ \E method \in Methods, body \in PatientBodies :
         Step(Idle, ReceiveCreate("createPatient", method, body, Now))

\* createPatient: patientCollection.InsertOne and the response
createPatientInsert ==
    \E r \in BagToSet(reqs) :
    /\ Quiet
    /\ r.h = "createPatient"
    /\ r.pc = "insert"
    /\ \E up \in BOOLEAN :
         LET res == InsertOne(patients, ToBSON(r.h, r.ent), patientIndex, up, nextOid)
             out == AfterInsert(r, res)
         IN  /\ patients' = res.docs
             /\ nextOid' = res.oid
             /\ reqs' = Served(r, out)
             /\ resp' = out.resp
             /\ created' = Created(out)
    /\ UNCHANGED <<program, users, doctors, appointments, departments,
                   patientIndex, doctorIndex>>

\* GET /patients/list, up to the query
getPatients ==
    /\ program = "hospitaldb"
    /\ Free
    /\ \E method \in Methods : Step(Idle, ReceiveList("getPatients", method))

\* getPatients: patientCollection.Find, cursor.All and the response
getPatientsFind ==
    \E r \in BagToSet(reqs) :
    /\ r.h = "getPatients"
    /\ r.pc = "find"
    /\ \E up \in BOOLEAN :
         Step(r, AfterFind(r, FindAll("getPatients", patients, up)))

\* POST /doctors, up to the insert
createDoctor ==
    /\ program = "hospitaldb"
    /\ Free
    /\ OidsLeft
    /\ \E method \in Methods, body \in DoctorBodies :
         Step(Idle, ReceiveCreate("createDoctor", method, body, Now))

\* createDoctor: doctorCollection.InsertOne and the response
createDoctorInsert ==
    \E r \in BagToSet(reqs) :
    /\ Quiet
    /\ r.h = "createDoctor"
    /\ r.pc = "insert"
    /\ \E up \in BOOLEAN :
         LET res == InsertOne(doctors, ToBSON(r.h, r.ent), doctorIndex, up, nextOid)
             out == AfterInsert(r, res)
         IN  /\ doctors' = res.docs
             /\ nextOid' = res.oid
             /\ reqs' = Served(r, out)
             /\ resp' = out.resp
             /\ created' = Created(out)
    /\ UNCHANGED <<program, users, patients, appointments, departments,
                   patientIndex, doctorIndex>>

\* POST /appointments, up to validateAppointment's first lookup
createAppointment ==
    /\ program = "hospitaldb"
    /\ Free
    /\ OidsLeft
    /\ \E method \in Methods, body \in AppointmentBodies :
         Step(Idle, ReceiveCreate("createAppointment", method, body, Now))

\* validateAppointment: patientCollection.FindOne
validateAppointmentPatient ==
    \E r \in BagToSet(reqs) :
    /\ r.h = "createAppointment"
    /\ r.pc = "findPatient"
    /\ \E up \in BOOLEAN :
         Step(r, AfterFindPatient(r, FindOne(patients, r.ent.PatientID, up)))

\* validateAppointment: doctorCollection.FindOne
validateAppointmentDoctor ==
    \E r \in BagToSet(reqs) :
    /\ r.h = "createAppointment"
    /\ r.pc = "findDoctor"
    /\ \E up \in BOOLEAN :
         Step(r, AfterFindDoctor(r, FindOne(doctors, r.ent.DoctorID, up)))

\* createAppointment: appointmentCollection.InsertOne and the response
createAppointmentInsert ==
    \E r \in BagToSet(reqs) :
    /\ Quiet
    /\ r.h = "createAppointment"
    /\ r.pc = "insert"
    /\ \E up \in BOOLEAN :
         LET res == InsertOne(appointments, ToBSON(r.h, r.ent), FALSE, up, nextOid)
             out == AfterInsert(r, res)
         IN  /\ appointments' = res.docs
             /\ nextOid' = res.oid
             /\ reqs' = Served(r, out)
             /\ resp' = out.resp
             /\ created' = Created(out)
    /\ UNCHANGED <<program, users, patients, doctors, departments,
                   patientIndex, doctorIndex>>

\* POST /departments, up to the insert
createDepartment ==
    /\ program = "hospitaldb"
    /\ Free
    /\ OidsLeft
    /\ \E method \in Methods, body \in DepartmentBodies :
         Step(Idle, ReceiveCreate("createDepartment", method, body, Now))

\* createDepartment: departmentCollection.InsertOne and the response
createDepartmentInsert ==
    \E r \in BagToSet(reqs) :
    /\ Quiet
    /\ r.h = "createDepartment"
    /\ r.pc = "insert"
    /\ \E up \in BOOLEAN :
         LET res == InsertOne(departments, ToBSON(r.h, r.ent), FALSE, up, nextOid)
             out == AfterInsert(r, res)
         IN  /\ departments' = res.docs
             /\ nextOid' = res.oid
             /\ reqs' = Served(r, out)
             /\ resp' = out.resp
             /\ created' = Created(out)
    /\ UNCHANGED <<program, users, patients, doctors, appointments,
                   patientIndex, doctorIndex>>

\* The handler that wrote the response returns.
handlerReturn ==
    /\ ~Quiet
    /\ resp' = NoResp
    /\ UNCHANGED <<program, colls, patientIndex, doctorIndex, nextOid, reqs, created>>

Next ==
    \/ createUser
    \/ createUserInsert
    \/ getUsers
    \/ getUsersFind
    \/ createPatient
    \/ createPatientInsert
    \/ getPatients
    \/ getPatientsFind
    \/ createDoctor
    \/ createDoctorInsert
    \/ createAppointment
    \/ validateAppointmentPatient
    \/ validateAppointmentDoctor
    \/ createAppointmentInsert
    \/ createDepartment
    \/ createDepartmentInsert
    \/ handlerReturn

Spec == Init /\ [][Next]_vars

\* ===================================================================== claims
\* The collection a creation handler inserts into.
CollOf(h) ==
    CASE h = "createUser" -> users
      [] h = "createPatient" -> patients
      [] h = "createDoctor" -> doctors
      [] h = "createAppointment" -> appointments
      [] h = "createDepartment" -> departments

\* The same collection after the step.
CollAfter(h) ==
    CASE h = "createUser" -> users'
      [] h = "createPatient" -> patients'
      [] h = "createDoctor" -> doctors'
      [] h = "createAppointment" -> appointments'
      [] h = "createDepartment" -> departments'

TotalDocs ==
    Len(users) + Len(patients) + Len(doctors) + Len(appointments) + Len(departments)

\* This step sends a response.
Responds == Quiet /\ resp'.h # ""

NoDuplicateEmail(coll) ==
    \A j, k \in 1..Len(coll) : coll[j].email = coll[k].email => j = k

\* C1: a createAppointment request whose body decodes and whose patientId or
\* doctorId matches no record is answered 400 and leaves the appointments alone;
\* the message is "patient not found" whenever the patient is missing and "doctor
\* not found" only when the patient exists and the doctor does not; a request
\* goes on to the next lookup, and to the insert, only past a lookup that found
\* its record.
C1_MissingReferenceStep ==
    /\ \A r \in BagToSet(reqs') :
         r.h = "createAppointment" =>
           /\ r.pc \in {"findDoctor", "insert"} => r.ent.PatientID \in Ids(patients')
           /\ r.pc = "insert" => r.ent.DoctorID \in Ids(doctors')
    /\ ( /\ Responds
         /\ resp'.h = "createAppointment"
         /\ resp'.method = "POST"
         /\ DecodeOk(resp'.h, resp'.body) )
       => LET pMissing == resp'.body.patientId \notin Ids(patients)
              dMissing == resp'.body.doctorId \notin Ids(doctors)
          IN  (pMissing \/ dMissing) =>
                /\ resp'.status = StatusBadRequest
                /\ appointments' = appointments
                /\ pMissing => resp'.text = PatientNotFound
                /\ resp'.text = DoctorNotFound => (~pMissing /\ dMissing)
                /\ resp'.text \in {PatientNotFound, DoctorNotFound}

\* C1: every step of the service satisfies C1_MissingReferenceStep: an appointment
\* that names a missing patient or doctor is answered 400 and is never inserted.
C1_MissingReferenceRejected == [][C1_MissingReferenceStep]_vars

\* C1 witness: the patient exists, the doctor does not, the answer is 400
\* "doctor not found" and no appointment is stored.
C1_Witness ==
    /\ resp.h = "createAppointment"
    /\ resp.status = StatusBadRequest
    /\ resp.text = DoctorNotFound
    /\ resp.body.patientId \in Ids(patients)
    /\ resp.body.doctorId \notin Ids(doctors)
    /\ appointments = <<>>

\* C2: every stored appointment names a stored patient and a stored doctor, and
\* a createAppointment request is at its insert only when both of its lookups
\* found their records.
C2_AppointmentsReferenceExisting ==
    /\ \A k \in 1..Len(appointments) :
         /\ appointments[k].patientId \in Ids(patients)
         /\ appointments[k].doctorId \in Ids(doctors)
    /\ \A r \in BagToSet(reqs) :
         (r.h = "createAppointment" /\ r.pc = "insert") =>
           /\ r.ent.PatientID \in Ids(patients)
           /\ r.ent.DoctorID \in Ids(doctors)

\* C2 witness: an appointment is stored.
C2_Witness == Len(appointments) > 0

\* C3 (as claimed): of the creation requests that carry the same email to the
\* same collection (users, patients, doctors) at most one succeeds, so the
\* collection never holds two records with the same email.
C3_OneSuccessPerEmail ==
    /\ NoDuplicateEmail(users)
    /\ NoDuplicateEmail(patients)
    /\ NoDuplicateEmail(doctors)
    /\ \A c, d \in created :
         ( /\ c.h \in {"createUser", "createPatient", "createDoctor"}
           /\ c.h = d.h
           /\ c.body.email = d.body.email ) => c.id = d.id

\* C4: every stored appointment and every appointment returned with 201 has
\* status "Scheduled", whatever status the request body carried.
C4_StatusScheduled ==
    /\ \A k \in 1..Len(appointments) : appointments[k].status = Scheduled
    /\ (resp.h = "createAppointment" /\ resp.status = StatusCreated)
         => resp.val.status = Scheduled

\* C4 witness: the body carried "Completed"; the record is stored and returned
\* as "Scheduled".
C4_Witness ==
    /\ resp.h = "createAppointment"
    /\ resp.status = StatusCreated
    /\ resp.body.status = "Completed"
    /\ Len(appointments) > 0
    /\ appointments[Len(appointments)]._id = resp.val.id

\* C5 (as claimed): the identifier a successful creation returns is drawn from
\* the store's generator, also when the payload carries an "id", and differs
\* from that of every earlier successful creation; the identifiers of stored
\* records never change.
C5_StoreAssignedStep ==
    /\ (Responds /\ resp'.status = StatusCreated) =>
         /\ resp'.val.id = nextOid
         /\ nextOid' = nextOid + 1
         /\ resp'.val.id \notin {c.id : c \in created}
    /\ \A h \in CreateHandlers :
         /\ Len(CollAfter(h)) >= Len(CollOf(h))
         /\ \A k \in 1..Len(CollOf(h)) : CollAfter(h)[k]._id = CollOf(h)[k]._id

\* C5 (as claimed): every step satisfies C5_StoreAssignedStep: the identifier a
\* creation returns is the store's own and new.
C5_StoreAssignedNovelId == [][C5_StoreAssignedStep]_vars

\* C6 (as claimed): a list request the store answers on a collection without
\* records is answered 200 with the empty JSON array.
C6_EmptyListIsEmptyArray ==
    ( /\ resp.h \in ListHandlers
      /\ resp.method = "GET"
      /\ resp.status # StatusInternalServerError
      /\ Len(IF resp.h = "getUsers" THEN users ELSE patients) = 0 )
    => /\ resp.status = StatusOK
       /\ ~resp.val.null
       /\ resp.val.items = <<>>

\* The record of list response items that answers creation c: c's identifier.
Listed(items, c) == {k \in 1..Len(items) : items[k].id = c.id}

\* C7 (as claimed): a successful list returns, for every record an earlier create
\* returned, a record equal to the create's payload but for the identifier.
C7_RoundTripPayload ==
    /\ (resp.h = "getUsers" /\ resp.status = StatusOK) =>
         \A c \in created :
           \E k \in Listed(resp.val.items, c) :
             /\ resp.val.items[k].name = c.body.name
             /\ resp.val.items[k].email = c.body.email
    /\ (resp.h = "getPatients" /\ resp.status = StatusOK) =>
         \A c \in {x \in created : x.h = "createPatient"} :
           \E k \in Listed(resp.val.items, c) :
             /\ resp.val.items[k].name = c.body.name
             /\ resp.val.items[k].email = c.body.email
             /\ resp.val.items[k].age = c.body.age
             /\ resp.val.items[k].gender = c.body.gender
             /\ resp.val.items[k].bloodGroup = c.body.bloodGroup
             /\ resp.val.items[k].contactNo = c.body.contactNo
             /\ resp.val.items[k].createdAt = c.body.createdAt

\* C7 (amended): a successful list returns, for every record an earlier create
\* returned, a record equal to the create's payload but for the identifier and
\* the createdAt the handler assigns.
C7_RoundTripButCreatedAt ==
    /\ (resp.h = "getUsers" /\ resp.status = StatusOK) =>
         \A c \in created :
           \E k \in Listed(resp.val.items, c) :
             /\ resp.val.items[k].name = c.body.name
             /\ resp.val.items[k].email = c.body.email
    /\ (resp.h = "getPatients" /\ resp.status = StatusOK) =>
         \A c \in {x \in created : x.h = "createPatient"} :
           \E k \in Listed(resp.val.items, c) :
             /\ resp.val.items[k].name = c.body.name
             /\ resp.val.items[k].email = c.body.email
             /\ resp.val.items[k].age = c.body.age
             /\ resp.val.items[k].gender = c.body.gender
             /\ resp.val.items[k].bloodGroup = c.body.bloodGroup
             /\ resp.val.items[k].contactNo = c.body.contactNo

\* C7 witness: a patient list is returned after a patient was created.
C7_Witness ==
    /\ resp.h = "getPatients"
    /\ resp.status = StatusOK
    /\ \E c \in created : c.h = "createPatient"

\* C8: a creation handler answers 201 exactly when its insert stored the record,
\* and the response then carries the identifier the record is stored under; it
\* answers 500 with the store's message when the insert failed, and the
\* collection is as before; a step stores at most one record; a request leaves
\* the server with its one response.
C8_InsertOutcomeStep ==
    /\ (Responds /\ resp'.h \in CreateHandlers) =>
         LET coll == CollOf(resp'.h)
             collAfter == CollAfter(resp'.h)
         IN  /\ resp'.status \in {StatusCreated, StatusBadRequest,
                                  StatusMethodNotAllowed, StatusInternalServerError}
             /\ (resp'.status = StatusCreated) <=> (collAfter # coll)
             /\ resp'.status = StatusCreated =>
                  /\ Len(collAfter) = Len(coll) + 1
                  /\ SubSeq(collAfter, 1, Len(coll)) = coll
                  /\ collAfter[Len(collAfter)]._id = resp'.val.id
                  /\ resp'.val.id # NilObjectID
             /\ resp'.status = StatusInternalServerError =>
                  /\ resp'.text \in {ErrDuplicateKey, ErrUnavailable}
                  /\ TotalDocs' = TotalDocs
    /\ TotalDocs' <= TotalDocs + 1
    /\ TotalDocs' # TotalDocs => (Responds /\ resp'.status = StatusCreated)
    /\ BagCardinality(reqs') < BagCardinality(reqs) =>
         (Responds /\ BagCardinality(reqs') = BagCardinality(reqs) - 1)

C9_RejectedBeforeStoreStep ==
    /\ \A r \in BagToSet(reqs') :
         /\ r.h \in CreateHandlers => (r.method = "POST" /\ DecodeOk(r.h, r.body))
         /\ r.h \in ListHandlers => r.method = "GET"
    /\ Responds =>
         LET wrongMethod == \/ (resp'.h \in CreateHandlers /\ resp'.method # "POST")
                            \/ (resp'.h \in ListHandlers /\ resp'.method # "GET")
             undecodable == /\ resp'.h \in CreateHandlers
                            /\ resp'.method = "POST"
                            /\ ~DecodeOk(resp'.h, resp'.body)
         IN  /\ wrongMethod =>
                  /\ resp'.status = StatusMethodNotAllowed
                  /\ resp'.text = MethodNotAllowedMsg
             /\ undecodable =>
                  /\ resp'.status = StatusBadRequest
                  /\ resp'.text = ErrDecode
             /\ (wrongMethod \/ undecodable) =>
                  /\ reqs' = reqs
                  /\ UNCHANGED <<colls, nextOid>>

\* C9: every step satisfies C9_RejectedBeforeStoreStep: wrong method gives 405,
\* an undecodable body 400, and neither touches the store.
C9_RejectedBeforeStore == [][C9_RejectedBeforeStoreStep]_vars

\* C9 witness: a wrong-method request with a malformed body is answered 405.
C9_Witness ==
    /\ resp.h \in CreateHandlers
    /\ resp.method = "GET"
    /\ ~resp.body.json
    /\ resp.status = StatusMethodNotAllowed

\* C10 (as claimed): createAppointment answers 400 only when the body does not
\* decode or the patient or the doctor it names is not in the store; a lookup
\* the store did not answer is not a 400.
C10_BadRequestOnlyWhenMissing ==
    ( /\ resp.h = "createAppointment"
      /\ resp.status = StatusBadRequest
      /\ DecodeOk(resp.h, resp.body) )
    => \/ resp.body.patientId \notin Ids(patients)
       \/ resp.body.doctorId \notin Ids(doctors)

====
